---- MODULE Spec2Model ----
(***************************************************************************)
(* IvleDownloader (src/ivle_downloader.py): mirror of a remote per-module  *)
(* file tree onto a local directory tree, driven through browser sessions  *)
(* (selenium drivers).                                                      *)
(*                                                                         *)
(* Strings are sequences of one-character strings, so that splitting a     *)
(* module label at '/' is computed.  A path is a sequence of names.  A url *)
(* is a record of the substrings the code tests for:                       *)
(*   marker   the page name in the url ("Default.aspx", "default.aspx",    *)
(*            "download.aspx" or "other")                                   *)
(*   hash     whether the url contains '#'                                 *)
(*   section  "Module" or "File" (the word url.replace rewrites)           *)
(*   node     the remote page or file the url leads to                     *)
(***************************************************************************)
EXTENDS Integers, Sequences, FiniteSets, TLC

\* --------------------------------------------------------------------------
\* Bounds of the model
\* --------------------------------------------------------------------------
\* longest landing page enumerated for the module enumeration
MaxEntries == 4
\* number of consecutive runs of start
MaxRuns == 2
\* number of completion polls counted while one transfer stays in progress
MaxPolls == 2
\* deepest nesting of walks followed on a remote tree with a cycle
MaxDepth == 6

VARIABLES
    page,       \* the landing page: the 'u' elements, in page order
    argv,       \* how start is called: [kind |-> "noarg" | "none" | "list", list |-> ...]
    dangerous,  \* the file nodes the browser refuses to download
    run,        \* number of the current run of start
    pc,         \* position of start: "idle", "loop", "enter", "walk", "reacquire", "done",
                \* "error"
                \* ("enum", "enumerated" under SpecEnum)
    error,      \* the exception that ended the run, or "none"
    mode,       \* "all" (_download_all) or "modules" (_download_modules)
    all_modules_files_urls, \* the enumerated mapping, in insertion order
    mi,         \* index of the loop over the mapping
    driver,     \* the loop's driver variable (a session id, 0 before start)
    sessions,   \* every driver acquired so far: [dir, open, run]
    stack,      \* the activations of _download_files_from_url, innermost last
    fs,         \* the local file system: [dirs, files], sets of paths
    fs0,        \* history: the local file system when this run of start began
    inflight,   \* transfers in progress: [session, dir, name]
    synced,     \* history: the modules whose walk was started in this run
    attempts,   \* history: every download triggered: [run, session, dir, path, name]
    walked,     \* history: the walks that returned in this run, as they were
                \* at their return: [session, path, node, links, pending, tried, busy]
    trace       \* history: the steps of the walks of this run, in order:
                \* [kind |-> "examine" | "fetch" | "close", path, node, i, name]

vars == <<page, argv, dangerous, run, pc, error, mode, all_modules_files_urls,
          mi, driver, sessions, stack, fs, fs0, inflight, synced, attempts,
          walked, trace>>

\* --------------------------------------------------------------------------
\* Strings, paths and the remote site
\* --------------------------------------------------------------------------
Slash == "/"

a_ == <<"a">>
b_ == <<"b">>
c_ == <<"c">>
d_ == <<"d">>

\* root_path of the configuration, and the browser's own download directory
root_path == << <<"r">> >>
DefaultDir == << <<"~">> >>

Url(marker, hash, section, node) ==
    [marker |-> marker, hash |-> hash, section |-> section, node |-> node]

\* the remote file pages: node |-> the 'a' elements of its mainTable
Remote ==
    [ma |-> << [text |-> <<"F">>, href |-> Url("default.aspx", FALSE, "File", "F")],
               [text |-> <<"y">>, href |-> Url("download.aspx", FALSE, "File", "y")],
               [text |-> <<"u">>, href |-> Url("default.aspx", TRUE, "File", "ma")],
               [text |-> <<"h">>, href |-> Url("other", FALSE, "File", "h")],
               [text |-> <<"H">>, href |-> Url("default.aspx", FALSE, "File", "H")] >>,
     F  |-> << [text |-> <<"x">>, href |-> Url("download.aspx", FALSE, "File", "x")],
               [text |-> <<"G">>, href |-> Url("default.aspx", FALSE, "File", "G")],
               [text |-> <<"G">>, href |-> Url("download.aspx", FALSE, "File", "g")],
               [text |-> <<"z">>, href |-> Url("download.aspx", FALSE, "File", "z")] >>,
     G  |-> << [text |-> <<"w">>, href |-> Url("download.aspx", FALSE, "File", "w")] >>,
     H  |-> << [text |-> <<"t">>, href |-> Url("download.aspx", FALSE, "File", "t")] >>,
     mb |-> << [text |-> <<"D">>, href |-> Url("Default.aspx", FALSE, "File", "G")],
               [text |-> <<"y">>, href |-> Url("download.aspx", TRUE, "File", "y")],
               [text |-> <<"v">>, href |-> Url("download.aspx", FALSE, "File", "v")] >>,
     mc |-> << >>,
     \* a module whose sub-folder L links back to the module's own file page
     md |-> << [text |-> <<"s">>, href |-> Url("download.aspx", FALSE, "File", "s")],
               [text |-> <<"N">>, href |-> Url("default.aspx", FALSE, "File", "N")],
               [text |-> <<"L">>, href |-> Url("default.aspx", FALSE, "File", "L")] >>,
     N  |-> << [text |-> <<"t">>, href |-> Url("download.aspx", FALSE, "File", "t")] >>,
     L  |-> << [text |-> <<"M">>, href |-> Url("default.aspx", FALSE, "File", "md")] >> ]

\* --------------------------------------------------------------------------
\* _find_all_modules_files_urls
\* --------------------------------------------------------------------------
\* str.split('/')[0]: the characters before the first '/'
SplitHead(s) ==
    LET n == IF \E i \in 1..Len(s) : s[i] = Slash
             THEN (CHOOSE i \in 1..Len(s) :
                      s[i] = Slash /\ \A j \in 1..(i - 1) : s[j] # Slash) - 1
             ELSE Len(s)
    IN  SubSeq(s, 1, n)

\* url.replace('Module', 'File')
ReplaceModule(url) == [url EXCEPT !.section = "File"]

\* mutation: a new key is put in front of the others
DictSet_front(d, k, v) ==
    IF \E i \in 1..Len(d) : d[i].key = k
    THEN [i \in 1..Len(d) |-> IF d[i].key = k THEN [key |-> k, val |-> v] ELSE d[i]]
    ELSE << [key |-> k, val |-> v] >> \o d

\* urls[module] = url on an insertion-ordered dict
DictSet(d, k, v) ==
    IF \E i \in 1..Len(d) : d[i].key = k
    THEN [i \in 1..Len(d) |-> IF d[i].key = k THEN [key |-> k, val |-> v] ELSE d[i]]
    ELSE Append(d, [key |-> k, val |-> v])

Keys(d) == [i \in 1..Len(d) |-> d[i].key]

\* the module not opened yet: 'Default.aspx' not in url
NotOpened(url) == url.marker # "Default.aspx"

\* the normalisation of the label: if '/' in module: module.split('/')[0]
ModuleCode(text) ==
    IF \E i \in 1..Len(text) : text[i] = Slash THEN SplitHead(text) ELSE text

\* mutation: an unopened module is skipped and the enumeration goes on
RECURSIVE FindFrom_continue(_, _, _)
FindFrom_continue(elements, i, urls) ==
    IF i > Len(elements) THEN urls
    ELSE IF ~elements[i].link \/ NotOpened(elements[i].href)
    THEN FindFrom_continue(elements, i + 1, urls)
    ELSE FindFrom_continue(elements, i + 1,
                           DictSet(urls, ModuleCode(elements[i].text),
                                   ReplaceModule(elements[i].href)))

RECURSIVE FindFrom(_, _, _)
FindFrom(elements, i, urls) ==
    IF i > Len(elements) THEN urls
    ELSE IF ~elements[i].link THEN FindFrom(elements, i + 1, urls)
    ELSE IF NotOpened(elements[i].href) THEN urls
    ELSE FindFrom(elements, i + 1,
                  DictSet(urls, ModuleCode(elements[i].text),
                          ReplaceModule(elements[i].href)))

find_all_modules_files_urls(elements) == FindFrom(elements, 1, << >>)

\* the 'u' elements a landing page is made of
NoLink == [link |-> FALSE, text |-> << >>, href |-> Url("other", FALSE, "Module", "h")]
Link(text, marker, node) ==
    [link |-> TRUE, text |-> text, href |-> Url(marker, FALSE, "Module", node)]

EntryPool ==
    { NoLink,
      Link(a_, "Default.aspx", "ma"),
      Link(<<"b", "/", "a">>, "Default.aspx", "mb"),
      Link(<<"a", "/", "c">>, "Default.aspx", "mc"),
      Link(c_, "other", "mc") }

RECURSIVE SeqsUpTo(_, _)
SeqsUpTo(S, n) ==
    IF n = 0 THEN { << >> }
    ELSE LET shorter == SeqsUpTo(S, n - 1)
         IN  shorter \cup { Append(s, e) : s \in shorter, e \in S }

\* --------------------------------------------------------------------------
\* The local file system (os.listdir, os.mkdir) and the sessions
\* --------------------------------------------------------------------------
Entries(f) == f.dirs \cup f.files

\* os.listdir(path): the names directly under path
listdir(f, path) ==
    { p[Len(p)] : p \in { q \in Entries(f) :
                            /\ Len(q) = Len(path) + 1
                            /\ SubSeq(q, 1, Len(path)) = path } }

\* '{}/{}'.format(path, name)
Join(path, name) == Append(path, name)

mkdir(f, path) == [f EXCEPT !.dirs = @ \cup {path}]

\* mutation: the test on the listing is inverted
create_folders_inverted(f, path, new_folder) ==
    IF new_folder \in listdir(f, path)
    THEN mkdir(f, Join(path, new_folder))
    ELSE f

create_folders(f, path, new_folder) ==
    IF new_folder \notin listdir(f, path)
    THEN mkdir(f, Join(path, new_folder))
    ELSE f

\* if module not in os.listdir(self.root_path): os.mkdir(module_path)
make_module_path(f, module) ==
    IF module \notin listdir(f, root_path)
    THEN mkdir(f, Join(root_path, module))
    ELSE f

\* _get_driver(*args): a new driver, bound to args[0] when given
get_driver(ss, download_path) ==
    Append(ss, [dir |-> download_path, open |-> TRUE, run |-> run, closes |-> 0])

\* mutation: the loop keeps the driver it had
returned_driver_stale(ss) == driver

\* return driver: the driver that _get_driver adds to the drivers ss
returned_driver(ss) == Len(ss) + 1

\* the driver that _download_all and _download_modules acquire after a module
get_default_driver(ss) == get_driver(ss, DefaultDir)

\* mutation: acquiring the driver of a sub-folder releases the open ones
get_folder_driver_release(ss, f_path) ==
    get_driver([d \in 1..Len(ss) |-> [ss[d] EXCEPT !.open = FALSE]], f_path)

\* the driver acquired for the sub-folder f_path
get_folder_driver(ss, f_path) == get_driver(ss, f_path)

\* mutation: the driver is left open
close_forgotten(ss, d) == ss

\* driver.close()
close(ss, d) == [ss EXCEPT ![d].open = FALSE, ![d].closes = @ + 1]

IsOpen(d) == d \in 1..Len(sessions) /\ sessions[d].open

OpenSessions == { d \in 1..Len(sessions) : sessions[d].open }

\* mutation: a folder whose page is being walked already is not entered again
is_folder_unvisited(f_url) ==
    /\ f_url.marker = "default.aspx" /\ ~f_url.hash
    /\ \A k \in 1..Len(stack) : stack[k].url.node # f_url.node

\* classification of a link of the listing
is_folder(f_url) == f_url.marker = "default.aspx" /\ ~f_url.hash
is_file(f_url) == f_url.marker = "download.aspx" /\ ~f_url.hash

\* find_element_by_id('mainTable') finds the table on a file page only
HasMainTable(url) == url.section = "File" /\ url.node \in DOMAIN Remote

\* the browser's name for a file saved into dir: a fresh one when taken
RECURSIVE SavedName(_, _, _)
SavedName(f, dir, name) ==
    IF name \in listdir(f, dir)
    THEN SavedName(f, dir, name \o <<"'">>)
    ELSE name

\* mutation: the 'Pause' button is always found
get_download_status_always(d) == TRUE

\* mutation: the 'Pause' button is never found
get_download_status_never(d) == FALSE

\* get_download_status(): a 'Pause' button is shown in the driver's downloads
get_download_status(d) == \E t \in inflight : t.session = d

\* if modules: of start(*modules)
HasSelection(args) == args.kind # "noarg"

\* mutation: only the first identifier of the selection is compared
NotSelected_first(module, modules) == modules = << >> \/ modules[1] # module

\* module not in modules
NotSelected(module, modules) == \A i \in 1..Len(modules) : modules[i] # module

\* --------------------------------------------------------------------------
\* Activations of _download_files_from_url
\* --------------------------------------------------------------------------
Frame(url, path, d) ==
    [url |-> url, path |-> path, driver |-> d, pc |-> "get",
     elements |-> << >>, i |-> 1, missing |-> << >>, j |-> 1, polls |-> 0,
     ls0 |-> {}, tried |-> << >>]

Depth == Len(stack)
Top == stack[Depth]
SetTop(fr) == [stack EXCEPT ![Depth] = fr]

Raise(e) ==
    /\ pc' = "error"
    /\ error' = e

\* --------------------------------------------------------------------------
\* Initial states
\* --------------------------------------------------------------------------
Landings ==
    { << Link(a_, "Default.aspx", "ma"), NoLink, Link(<<"b", "/", "a">>, "Default.aspx", "mb") >>,
      << Link(a_, "Default.aspx", "ma"), Link(c_, "other", "mc"),
         Link(<<"b", "/", "a">>, "Default.aspx", "mb") >>,
      << >>,
      << Link(<<"a", "/", "c">>, "Default.aspx", "mc"), Link(a_, "Default.aspx", "ma") >>,
      << Link(<<"b", "/", "a">>, "Default.aspx", "mb"),
         Link(<<"a", "/", "c">>, "Default.aspx", "mc") >> }

Args ==
    { [kind |-> "noarg", list |-> << >>],
      [kind |-> "none", list |-> << >>] }
    \cup { [kind |-> "list", list |-> l] :
             l \in { << >>, <<a_>>, <<b_, a_>>, <<c_>>, <<a_, c_>> } }

EmptyRoot == [dirs |-> {root_path, DefaultDir}, files |-> {}]

UsedRoot ==
    [dirs  |-> {root_path, DefaultDir, Join(root_path, a_),
                Join(Join(root_path, a_), <<"F">>)},
     files |-> {Join(Join(Join(root_path, a_), <<"F">>), <<"x">>),
                Join(Join(Join(root_path, a_), <<"F">>), <<"q">>),
                Join(Join(root_path, a_), <<"y">>)}]

InitCommon ==
    /\ run = 1
    /\ error = "none"
    /\ mode = "all"
    /\ all_modules_files_urls = << >>
    /\ mi = 1
    /\ driver = 0
    /\ sessions = << >>
    /\ stack = << >>
    /\ inflight = {}
    /\ synced = << >>
    /\ attempts = << >>
    /\ walked = << >>
    /\ trace = << >>

Init ==
    /\ page \in Landings
    /\ argv \in Args
    /\ dangerous \in { {}, {"x"} }
    /\ fs \in {EmptyRoot, UsedRoot}
    /\ fs0 = fs
    /\ pc = "idle"
    /\ InitCommon

\* --------------------------------------------------------------------------
\* start, _download_all, _download_modules
\* --------------------------------------------------------------------------
\* start(*modules), lines 244-249
start ==
    /\ pc = "idle"
    /\ sessions' = get_default_driver(sessions)
    /\ driver' = returned_driver(sessions)
    /\ all_modules_files_urls' = find_all_modules_files_urls(page)
    /\ mode' = IF HasSelection(argv) THEN "modules" ELSE "all"
    /\ mi' = 1
    /\ pc' = "loop"
    /\ UNCHANGED <<page, argv, dangerous, run, error, stack, fs, fs0,
                   inflight, synced, attempts, walked, trace>>

\* the directory of the module at mi, lines 175-178 and 197-200
MakeModule ==
    /\ fs' = make_module_path(fs, all_modules_files_urls[mi].key)
    /\ pc' = "enter"
    /\ UNCHANGED <<mi, error>>

\* one iteration of the loop of _download_all, lines 174-178
download_all ==
    /\ pc = "loop"
    /\ mode = "all"
    /\ mi <= Len(all_modules_files_urls)
    /\ MakeModule
    /\ UNCHANGED <<page, argv, dangerous, run, mode, all_modules_files_urls,
                   driver, sessions, stack, fs0, inflight, synced, attempts, walked, trace>>

\* one iteration of the loop of _download_modules, lines 194-200
download_modules ==
    /\ pc = "loop"
    /\ mode = "modules"
    /\ mi <= Len(all_modules_files_urls)
    /\ IF argv.kind = "none"
       THEN /\ Raise("TypeError")
            /\ UNCHANGED <<mi, fs>>
       ELSE IF NotSelected(all_modules_files_urls[mi].key, argv.list)
       THEN /\ mi' = mi + 1
            /\ UNCHANGED <<pc, error, fs>>
       ELSE MakeModule
    /\ UNCHANGED <<page, argv, dangerous, run, mode, all_modules_files_urls,
                   driver, sessions, stack, fs0, inflight, synced, attempts, walked, trace>>

\* self._download_files_from_url(url, module_path, driver), lines 179 and 201
enter_module ==
    /\ pc = "enter"
    /\ LET module == all_modules_files_urls[mi].key
           url == all_modules_files_urls[mi].val
       IN  /\ stack' = << Frame(url, Join(root_path, module), driver) >>
           /\ synced' = Append(synced, module)
    /\ pc' = "walk"
    /\ UNCHANGED <<page, argv, dangerous, run, error, mode,
                   all_modules_files_urls, mi, driver, sessions, fs, fs0,
                   inflight, attempts, walked, trace>>

\* driver = self._get_driver() after the walk of a module, lines 180 and 202
reacquire ==
    /\ pc = "reacquire"
    /\ sessions' = get_default_driver(sessions)
    /\ driver' = returned_driver(sessions)
    /\ mi' = mi + 1
    /\ pc' = "loop"
    /\ UNCHANGED <<page, argv, dangerous, run, error, mode,
                   all_modules_files_urls, stack, fs, fs0, inflight, synced,
                   attempts, walked, trace>>

\* the loop over the mapping is exhausted: start returns
start_returns ==
    /\ pc = "loop"
    /\ mi > Len(all_modules_files_urls)
    /\ pc' = "done"
    /\ UNCHANGED <<page, argv, dangerous, run, error, mode,
                   all_modules_files_urls, mi, driver, sessions, stack, fs,
                   fs0, inflight, synced, attempts, walked, trace>>

\* --------------------------------------------------------------------------
\* _download_files_from_url
\* --------------------------------------------------------------------------
\* a step of the walk fr, for the history
Event(kind, fr, i, name) ==
    [kind |-> kind, path |-> fr.path, node |-> fr.url.node, i |-> i, name |-> name]

\* driver.get(url), the mainTable and its 'a' elements, lines 218-223
walk_get ==
    /\ pc = "walk"
    /\ Top.pc = "get"
    /\ IF ~IsOpen(Top.driver)
       THEN Raise("WebDriverException") /\ UNCHANGED stack
       ELSE IF ~HasMainTable(Top.url)
       THEN Raise("NoSuchElementException") /\ UNCHANGED stack
       ELSE /\ stack' = SetTop([Top EXCEPT !.pc = "loop",
                                           !.elements = Remote[Top.url.node],
                                           !.i = 1,
                                           !.missing = << >>,
                                           !.ls0 = listdir(fs, Top.path)])
            /\ UNCHANGED <<pc, error>>
    /\ UNCHANGED <<page, argv, dangerous, run, mode, all_modules_files_urls,
                   mi, driver, sessions, fs, fs0, inflight, synced, attempts, walked, trace>>

\* mutation: the file is fetched whether or not it is present locally
add_missing_always(f, path, missing, text, f_url) == DictSet(missing, text, f_url)

\* the missing files after the file link named text, lines 234-235
add_missing(f, path, missing, text, f_url) ==
    IF text \notin listdir(f, path)
    THEN DictSet(missing, text, f_url)
    ELSE missing

\* one iteration of the loop over the links, up to the folder's directory:
\* lines 224-231 and 233-235
walk_element ==
    /\ pc = "walk"
    /\ Top.pc = "loop"
    /\ Top.i <= Len(Top.elements)
    /\ trace' = Append(trace, Event("examine", Top, Top.i, Top.elements[Top.i].text))
    /\ LET element == Top.elements[Top.i]
           f_url == element.href
       IN  IF is_folder(f_url)
           THEN IF Top.path \notin fs.dirs
                THEN /\ Raise("FileNotFoundError")
                     /\ UNCHANGED <<stack, fs>>
                ELSE /\ fs' = create_folders(fs, Top.path, element.text)
                     /\ stack' = SetTop([Top EXCEPT !.pc = "recurse"])
                     /\ UNCHANGED <<pc, error>>
           ELSE IF is_file(f_url)
           THEN IF Top.path \notin fs.dirs
                THEN /\ Raise("FileNotFoundError")
                     /\ UNCHANGED <<stack, fs>>
                ELSE /\ stack' = SetTop([Top EXCEPT
                                  !.i = @ + 1,
                                  !.missing = add_missing(fs, Top.path, Top.missing,
                                                          element.text, f_url)])
                     /\ UNCHANGED <<pc, error, fs>>
           ELSE /\ stack' = SetTop([Top EXCEPT !.i = @ + 1])
                /\ UNCHANGED <<pc, error, fs>>
    /\ UNCHANGED <<page, argv, dangerous, run, mode, all_modules_files_urls,
                   mi, driver, sessions, fs0, inflight, synced, attempts, walked>>

\* self._download_files_from_url(f_url, f_path, self._get_driver(f_path)),
\* line 232; the caller goes on with the next link when the call returns
walk_recurse ==
    /\ pc = "walk"
    /\ Top.pc = "recurse"
    /\ Depth < MaxDepth
    /\ LET element == Top.elements[Top.i]
           f_path == Join(Top.path, element.text)
       IN  /\ sessions' = get_folder_driver(sessions, f_path)
           /\ stack' = Append(SetTop([Top EXCEPT !.pc = "loop", !.i = @ + 1]),
                              Frame(element.href, f_path, Len(sessions) + 1))
    /\ UNCHANGED <<page, argv, dangerous, run, pc, error, mode,
                   all_modules_files_urls, mi, driver, fs, fs0, inflight,
                   synced, attempts, walked, trace>>

\* the call of _update_folder and its driver.get('chrome://downloads'),
\* lines 236 and 101
update_folder ==
    /\ pc = "walk"
    /\ Top.pc = "loop"
    /\ Top.i > Len(Top.elements)
    /\ IF ~IsOpen(Top.driver)
       THEN Raise("WebDriverException") /\ UNCHANGED stack
       ELSE /\ stack' = SetTop([Top EXCEPT !.pc = "file", !.j = 1])
            /\ UNCHANGED <<pc, error>>
    /\ UNCHANGED <<page, argv, dangerous, run, mode, all_modules_files_urls,
                   mi, driver, sessions, fs, fs0, inflight, synced, attempts, walked, trace>>

\* the transfers in progress after driver.get(url) of a file on driver d
trigger_download(transfers, d, name, url) ==
    IF url.node \in dangerous
    THEN transfers
    ELSE transfers \cup {[session |-> d, dir |-> sessions[d].dir, name |-> name]}

\* driver.get(url) of the next missing file, lines 102-105
update_get ==
    /\ pc = "walk"
    /\ Top.pc = "file"
    /\ Top.j <= Len(Top.missing)
    /\ LET file_name == Top.missing[Top.j].key
           url == Top.missing[Top.j].val
       IN  IF ~IsOpen(Top.driver)
           THEN Raise("WebDriverException")
                /\ UNCHANGED <<stack, inflight, attempts, trace>>
           ELSE /\ inflight' = trigger_download(inflight, Top.driver, file_name, url)
                /\ trace' = Append(trace, Event("fetch", Top, Top.j, file_name))
                /\ attempts' = Append(attempts,
                                 [run |-> run, session |-> Top.driver,
                                  dir |-> sessions[Top.driver].dir,
                                  path |-> Top.path, name |-> file_name])
                /\ stack' = SetTop([Top EXCEPT !.pc = "poll", !.polls = 0,
                                               !.tried = Append(@, file_name)])
                /\ UNCHANGED <<pc, error>>
    /\ UNCHANGED <<page, argv, dangerous, run, mode, all_modules_files_urls,
                   mi, driver, sessions, fs, fs0, synced, walked>>

\* mutation: a refused download ends the processing of the pending files
after_download_abort(fr) ==
    IF fr.missing[fr.j].val.node \in dangerous
    THEN [fr EXCEPT !.pc = "file", !.j = Len(fr.missing) + 1]
    ELSE [fr EXCEPT !.pc = "file", !.j = @ + 1]

\* the activation once the download of its file at j is no longer in progress
after_download(fr) == [fr EXCEPT !.pc = "file", !.j = @ + 1]

\* is_still_downloading = get_download_status() and the loop on it,
\* lines 114-118
update_poll ==
    /\ pc = "walk"
    /\ Top.pc = "poll"
    /\ IF get_download_status(Top.driver)
       THEN /\ Top.polls < MaxPolls
            /\ stack' = SetTop([Top EXCEPT !.polls = @ + 1])
       ELSE stack' = SetTop(after_download(Top))
    /\ UNCHANGED <<page, argv, dangerous, run, pc, error, mode,
                   all_modules_files_urls, mi, driver, sessions, fs, fs0,
                   inflight, synced, attempts, walked, trace>>

\* the browser finishes a transfer: the file is saved in the driver's directory
transfer_completes ==
    /\ \E t \in inflight :
         /\ inflight' = inflight \ {t}
         /\ fs' = [fs EXCEPT !.files =
                      @ \cup {Join(t.dir, SavedName(fs, t.dir, t.name))}]
    /\ UNCHANGED <<page, argv, dangerous, run, pc, error, mode,
                   all_modules_files_urls, mi, driver, sessions, stack, fs0,
                   synced, attempts, walked, trace>>

\* _update_folder returns, driver.close() and the return, lines 236-237
walk_close ==
    /\ pc = "walk"
    /\ Top.pc = "file"
    /\ Top.j > Len(Top.missing)
    /\ IF ~IsOpen(Top.driver)
       THEN Raise("WebDriverException") /\ UNCHANGED <<stack, sessions, walked, trace>>
       ELSE /\ sessions' = close(sessions, Top.driver)
            /\ walked' = Append(walked,
                            [session |-> Top.driver, path |-> Top.path,
                             node |-> Top.url.node, links |-> Len(Top.elements),
                             pending |-> Keys(Top.missing), tried |-> Top.tried,
                             busy |-> get_download_status(Top.driver)])
            /\ trace' = Append(trace, Event("close", Top, 0, << >>))
            /\ stack' = SubSeq(stack, 1, Depth - 1)
            /\ pc' = IF Depth = 1 THEN "reacquire" ELSE "walk"
            /\ UNCHANGED error
    /\ UNCHANGED <<page, argv, dangerous, run, mode, all_modules_files_urls,
                   mi, driver, fs, fs0, inflight, synced, attempts>>

\* start is run again on the same remote site and the same local root
start_again ==
    /\ pc \in {"done", "error"}
    /\ run < MaxRuns
    /\ run' = run + 1
    /\ pc' = "idle"
    /\ error' = "none"
    /\ stack' = << >>
    /\ synced' = << >>
    /\ all_modules_files_urls' = << >>
    /\ mi' = 1
    /\ fs0' = fs
    /\ walked' = << >>
    /\ trace' = << >>
    /\ UNCHANGED <<page, argv, dangerous, mode, driver, sessions, fs,
                   inflight, attempts>>

Next ==
    \/ start
    \/ download_all
    \/ download_modules
    \/ enter_module
    \/ reacquire
    \/ start_returns
    \/ walk_get
    \/ walk_element
    \/ walk_recurse
    \/ update_folder
    \/ update_get
    \/ update_poll
    \/ transfer_completes
    \/ walk_close
    \/ start_again

Spec == Init /\ [][Next]_vars

\* the steps of the program itself: one thread, which runs whenever it can
Program ==
    \/ start
    \/ download_all
    \/ download_modules
    \/ enter_module
    \/ reacquire
    \/ start_returns
    \/ walk_get
    \/ walk_element
    \/ walk_recurse
    \/ update_folder
    \/ update_get
    \/ update_poll
    \/ walk_close

\* the program keeps running, and every transfer in progress comes to its end
SpecFair ==
    /\ Init
    /\ [][Next]_vars
    /\ WF_vars(Program)
    /\ WF_vars(transfer_completes)

\* --------------------------------------------------------------------------
\* A remote tree with a cycle: the module d, walked down to MaxDepth
\* --------------------------------------------------------------------------
CycleLandings ==
    { << Link(d_, "Default.aspx", "md") >>,
      << Link(d_, "Default.aspx", "md"), Link(a_, "Default.aspx", "ma") >> }

CycleArgs ==
    { [kind |-> "noarg", list |-> << >>],
      [kind |-> "list", list |-> <<d_>>],
      [kind |-> "list", list |-> <<a_, d_>>] }

InitCycle ==
    /\ page \in CycleLandings
    /\ argv \in CycleArgs
    /\ dangerous \in { {}, {"t"} }
    /\ fs \in {EmptyRoot, UsedRoot}
    /\ fs0 = fs
    /\ pc = "idle"
    /\ InitCommon

NextCycle ==
    \/ start
    \/ download_all
    \/ download_modules
    \/ enter_module
    \/ walk_get
    \/ walk_element
    \/ walk_recurse
    \/ update_folder
    \/ update_get
    \/ update_poll
    \/ transfer_completes
    \/ walk_close

SpecCycle == InitCycle /\ [][NextCycle]_vars

\* --------------------------------------------------------------------------
\* The enumeration alone, on every landing page of up to MaxEntries elements
\* --------------------------------------------------------------------------
InitEnum ==
    /\ page \in SeqsUpTo(EntryPool, MaxEntries)
    /\ argv = [kind |-> "noarg", list |-> << >>]
    /\ dangerous = {}
    /\ fs = EmptyRoot
    /\ fs0 = fs
    /\ pc = "enum"
    /\ InitCommon

Enumerate ==
    /\ pc = "enum"
    /\ all_modules_files_urls' = find_all_modules_files_urls(page)
    /\ pc' = "enumerated"
    /\ UNCHANGED <<page, argv, dangerous, run, error, mode, mi, driver,
                   sessions, stack, fs, fs0, inflight, synced, attempts, walked, trace>>

NextEnum == Enumerate

SpecEnum == InitEnum /\ [][NextEnum]_vars

TypeOK ==
    /\ pc \in {"idle", "loop", "enter", "walk", "reacquire", "done", "error",
               "enum", "enumerated"}
    /\ run \in 1..MaxRuns
    /\ pc = "walk" => stack # << >>

\* --------------------------------------------------------------------------
\* Properties
\* --------------------------------------------------------------------------
IsPrefix(s, t) == Len(s) <= Len(t) /\ SubSeq(t, 1, Len(s)) = s

ThisRun == { d \in 1..Len(sessions) : sessions[d].run = run }
OpenNow == { d \in ThisRun : sessions[d].open }
AttemptsNow == { k \in 1..Len(attempts) : attempts[k].run = run }

\* C1: in every walk, the session that is handed the pending downloads is
\* bound to the walk's localPath as its download directory, for the walk of a
\* module's root as for the walk of a sub-folder, so that every download is
\* triggered on a session that saves into localPath.
C1_SessionBoundToLocalPath ==
    /\ \A k \in 1..Len(stack) :
         stack[k].pc \in {"file", "poll"} =>
             sessions[stack[k].driver].dir = stack[k].path
    /\ \A k \in 1..Len(attempts) : attempts[k].dir = attempts[k].path

\* C2: when start is run again on the unchanged remote tree and the same local
\* root, and no download of the first run was refused by the browser, no
\* download is triggered in the second run.
C2_SecondRunDownloadsNothing ==
    dangerous = {} => \A k \in 1..Len(attempts) : attempts[k].run = 1

\* C3: without a selection (start() without argument, or the command line
\* without -m, which calls start(None)), every module of the mapping is
\* synced once, in mapping order, and the run ends without an error.
C3_NoSelectionSyncsAll ==
    argv.kind \in {"noarg", "none"} =>
        /\ error = "none"
        /\ IsPrefix(synced, Keys(all_modules_files_urls))
        /\ pc = "done" => synced = Keys(all_modules_files_urls)

InSelection(m) == \E i \in 1..Len(argv.list) : argv.list[i] = m

SelectedKeys == SelectSeq(Keys(all_modules_files_urls), InSelection)

UnderRoot(p) == Len(p) >= 2 /\ p[1] = root_path[1]

\* C4: with a list as selection, exactly the modules of the mapping that are
\* in the list are synced, in mapping order; identifiers of the list that are
\* not in the mapping cause no error; and for a module that is not selected
\* nothing is created under the root, no walk is started, no session is bound
\* to its directory or acquired after it, and nothing is downloaded.
C4_OnlySelectedSynced ==
    argv.kind = "list" =>
        /\ error = "none"
        /\ IsPrefix(synced, SelectedKeys)
        /\ pc = "done" => synced = SelectedKeys
        /\ \A p \in Entries(fs) \ Entries(fs0) : UnderRoot(p) => InSelection(p[2])
        /\ \A k \in 1..Len(stack) : InSelection(stack[k].path[2])
        /\ \A d \in ThisRun :
             sessions[d].dir # DefaultDir => InSelection(sessions[d].dir[2])
        /\ \A k \in AttemptsNow : InSelection(attempts[k].path[2])
        /\ Cardinality({ d \in ThisRun : sessions[d].dir = DefaultDir })
             <= 1 + Len(synced)

\* a selection with an unknown identifier, and a module left out of it
C4_Witness ==
    /\ pc = "done"
    /\ argv.kind = "list"
    /\ argv.list = <<a_, c_>>
    /\ Keys(all_modules_files_urls) = <<a_, b_>>
    /\ synced = <<a_>>
    /\ attempts # << >>
    /\ Join(root_path, b_) \notin fs.dirs

\* C5: in _update_folder every pending file is navigated to exactly once, in
\* the order of the pending set, whatever happened to the files before it: a
\* refused (blocked) download does not keep a later file from being tried.
C5_EveryPendingFileAttempted ==
    \A k \in 1..Len(stack) :
        LET fr == stack[k]
            names == Keys(fr.missing)
        IN  /\ fr.pc \in {"get", "loop", "recurse"} => fr.tried = << >>
            /\ fr.pc = "file" =>
                 /\ fr.j <= Len(names) + 1
                 /\ fr.tried = SubSeq(names, 1, fr.j - 1)
            /\ fr.pc = "poll" => fr.tried = SubSeq(names, 1, fr.j)

\* the first pending file was refused and the second one was tried after it
C5_Witness ==
    /\ pc = "walk"
    /\ Top.pc = "file"
    /\ Top.j > Len(Top.missing)
    /\ Top.tried = << <<"x">>, <<"z">> >>
    /\ "x" \in dangerous
    /\ \A p \in fs.files : p[Len(p)] # <<"x">>

\* the first link of the landing page that is not opened, Len(page) + 1 if none
Cutoff ==
    LET unopened == { i \in 1..Len(page) :
                        page[i].link /\ page[i].href.marker # "Default.aspx" }
    IN  IF unopened = {} THEN Len(page) + 1
        ELSE CHOOSE i \in unopened : \A h \in unopened : i <= h

Kept == { i \in 1..(Cutoff - 1) : page[i].link }

\* the part of a label before its first '/'
FirstSegment(text) ==
    CHOOSE p \in { SubSeq(text, 1, n) : n \in 0..Len(text) } :
        /\ \A i \in 1..Len(p) : p[i] # "/"
        /\ Len(p) = Len(text) \/ text[Len(p) + 1] = "/"

FirstAt(key) == CHOOSE i \in Kept :
    /\ FirstSegment(page[i].text) = key
    /\ \A h \in Kept : FirstSegment(page[h].text) = key => i <= h

LastAt(key) == CHOOSE i \in Kept :
    /\ FirstSegment(page[i].text) = key
    /\ \A h \in Kept : FirstSegment(page[h].text) = key => h <= i

\* C6: the enumeration returns exactly the linked entries that precede the
\* first unopened entry, keyed by the first '/'-separated segment of their
\* label (one entry per key, in order of first appearance, with the url of the
\* last entry of that key, on the file section); nothing at or after the first
\* unopened entry is in the result, and entries without a link are skipped.
C6_EnumerationCutoff ==
    pc = "enumerated" =>
        LET m == all_modules_files_urls
        IN  /\ { m[k].key : k \in 1..Len(m) }
                 = { FirstSegment(page[i].text) : i \in Kept }
            /\ \A k, n \in 1..Len(m) : m[k].key = m[n].key => k = n
            /\ \A k, n \in 1..Len(m) :
                 k < n => FirstAt(m[k].key) < FirstAt(m[n].key)
            /\ \A k \in 1..Len(m) :
                 LET e == page[LastAt(m[k].key)]
                 IN  /\ m[k].val.node = e.href.node
                     /\ m[k].val.marker = e.href.marker
                     /\ m[k].val.section = "File"

\* an entry without link, a two-code label, an unopened entry and an opened
\* entry after it
C6_Witness ==
    /\ pc = "enumerated"
    /\ page = << NoLink, Link(<<"b", "/", "a">>, "Default.aspx", "mb"),
                 Link(c_, "other", "mc"), Link(a_, "Default.aspx", "ma") >>
    /\ Keys(all_modules_files_urls) = << b_ >>

FileLink(e) == e.href.marker = "download.aspx" /\ ~e.href.hash
FolderLink(e) == e.href.marker = "default.aspx" /\ ~e.href.hash

\* the file links of an activation that are absent from the directory: not in
\* its listing when the walk began, and not named like a sub-folder that the
\* walk created before it came to the link
AbsentFiles(fr) ==
    { i \in 1..Len(fr.elements) :
        /\ FileLink(fr.elements[i])
        /\ fr.elements[i].text \notin fr.ls0
        /\ ~\E h \in 1..(i - 1) :
              FolderLink(fr.elements[h]) /\ fr.elements[h].text = fr.elements[i].text }

\* C7: the pending downloads that a walk hands to _update_folder are exactly
\* the file links of the listing whose name is not in the directory listing
\* of the walk's path; a file whose name is present is not fetched, and
\* folder links and ignored links are never pending.
C7_PendingIsTheDiff ==
    \A k \in 1..Len(stack) :
        LET fr == stack[k]
            m == fr.missing
        IN  fr.pc \in {"file", "poll"} =>
              /\ { m[n].key : n \in 1..Len(m) }
                   = { fr.elements[i].text : i \in AbsentFiles(fr) }
              /\ \A n, h \in 1..Len(m) : m[n].key = m[h].key => n = h
              /\ \A n \in 1..Len(m) :
                   \E i \in AbsentFiles(fr) :
                      /\ fr.elements[i].text = m[n].key
                      /\ fr.elements[i].href = m[n].val
              /\ \A n \in 1..Len(fr.tried) : fr.tried[n] \notin fr.ls0

\* a directory that holds x and not z, and a file named like a sub-folder
C7_Witness ==
    /\ pc = "walk"
    /\ Top.pc = "file"
    /\ Top.path = Join(Join(root_path, a_), <<"F">>)
    /\ <<"x">> \in Top.ls0
    /\ <<"G">> \notin Top.ls0
    /\ Keys(Top.missing) = << <<"z">> >>

\* C8 as claimed: at most one session of a sync is open at any time.
C8_AtMostOneOpenSession == Cardinality(OpenNow) <= 1

\* C8, amended: the session of a folder stays open while its sub-folders are
\* walked; the open sessions of a sync are exactly the sessions of the walks
\* in progress, one per nesting level, and between two walks exactly the one
\* session of the loop over the modules.
C8_OpenSessionsAreTheWalks ==
    /\ pc = "walk" =>
         /\ OpenNow = { stack[k].driver : k \in 1..Depth }
         /\ Cardinality(OpenNow) = Depth
    /\ pc \in {"loop", "enter", "done"} => OpenNow = {driver}
    /\ pc = "reacquire" => OpenNow = {}

\* the walk of a sub-sub-folder begins: three sessions are open
C8_Witness ==
    /\ pc = "walk"
    /\ Depth = 3
    /\ Top.pc = "get"
    /\ Cardinality(OpenNow) = 3

\* C9: when start returns, every session acquired during the run is closed.
C9_AllSessionsClosedOnReturn == pc = "done" => OpenNow = {}

\* C10: a local directory exists before a session is bound to it, before a
\* walk with it as path starts and before a download into it is triggered,
\* for the directory of a module as for the directory of a sub-folder.
C10_MaterializedBeforeUse ==
    /\ \A d \in 1..Len(sessions) : sessions[d].dir \in fs.dirs
    /\ \A k \in 1..Len(stack) :
         /\ stack[k].path \in fs.dirs
         /\ stack[k].pc = "recurse" =>
              Join(stack[k].path, stack[k].elements[stack[k].i].text) \in fs.dirs
    /\ pc = "enter" =>
         Join(root_path, all_modules_files_urls[mi].key) \in fs.dirs
    /\ \A t \in inflight : t.dir \in fs.dirs
    /\ \A k \in 1..Len(attempts) :
         attempts[k].dir \in fs.dirs /\ attempts[k].path \in fs.dirs

\* the directory of a sub-sub-folder was just created, its session is not yet
\* acquired
C10_Witness ==
    /\ pc = "walk"
    /\ Depth = 2
    /\ Top.pc = "recurse"
    /\ Join(Top.path, Top.elements[Top.i].text) \in fs.dirs \ fs0.dirs

\* C11: every walk that returns has closed the session it was given, exactly
\* once, and only after _update_folder was done with the folder's pending
\* files (all of them tried, none still in progress); the session of a walk
\* in progress is not closed.  This includes a walk with nothing pending and
\* the walk of a folder without links.
C11_WalkClosesItsSessionOnce ==
    /\ \A k \in 1..Len(walked) :
         LET w == walked[k]
         IN  /\ sessions[w.session].closes = 1
             /\ ~sessions[w.session].open
             /\ w.tried = w.pending
             /\ ~w.busy
    /\ \A k, n \in 1..Len(walked) : walked[k].session = walked[n].session => k = n
    /\ \A k \in 1..Len(stack) :
         stack[k].driver \in 1..Len(sessions)
             => sessions[stack[k].driver].closes = 0
    /\ \A d \in 1..Len(sessions) : sessions[d].closes <= 1

\* the walk of a folder without links has returned, after a walk that fetched
C11_Witness ==
    /\ Len(walked) = 2
    /\ walked[1].pending # << >>
    /\ walked[2].links = 0
    /\ walked[2].pending = << >>
    /\ sessions[walked[2].session].closes = 1

\* C12: _update_folder does not trigger the download of the next pending file
\* while the transfer of the previous one is in progress (shows 'Pause'): at
\* most one transfer is in flight at any time, it is the transfer of the file
\* that the innermost walk is polling for, and _update_folder returns only
\* when no transfer of its files is in progress.
C12_OneTransferAtATime ==
    /\ Cardinality(inflight) <= 1
    /\ \A t \in inflight :
         /\ pc = "walk"
         /\ Top.pc = "poll"
         /\ t.session = Top.driver
         /\ t.name = Top.missing[Top.j].key
    /\ \A k \in 1..Len(walked) : ~walked[k].busy

\* the transfer of the second pending file is in progress and was polled
C12_Witness ==
    /\ pc = "walk"
    /\ Top.pc = "poll"
    /\ Top.j = 2
    /\ Top.polls >= 1
    /\ inflight # {}
    /\ ~(\E p \in fs.files : p[Len(p)] = Top.missing[2].key)
    /\ \E p \in fs.files \ fs0.files : p[Len(p)] = Top.missing[1].key

\* the place in the listing of the first file link named name
FirstFileLink(node, name) ==
    CHOOSE i \in 1..Len(Remote[node]) :
        /\ FileLink(Remote[node][i]) /\ Remote[node][i].text = name
        /\ \A h \in 1..(i - 1) :
              ~(FileLink(Remote[node][h]) /\ Remote[node][h].text = name)

\* C13: within a walk the links are examined in the order of the listing; the
\* whole walk of a sub-folder (its own sub-folders, its downloads and the
\* closing of its session) lies between the examination of its link and the
\* next step of the parent; and the folder's own missing files are fetched
\* only after its last link was examined, in the order of the listing.
C13_OrderWithinAWalk ==
    \A k \in 1..Len(trace) :
        LET e == trace[k]
            earlier == { h \in 1..(k - 1) : trace[h].path = e.path }
        IN  /\ e.kind = "examine" =>
                /\ \A h \in earlier : trace[h].kind = "examine" /\ trace[h].i < e.i
                /\ e.i > 1 => \E h \in earlier : trace[h].i = e.i - 1
            /\ (e.kind = "examine" /\ FolderLink(Remote[e.node][e.i])) =>
                  LET child == Join(e.path, e.name)
                      later == { h \in (k + 1)..Len(trace) : trace[h].path = e.path }
                  IN  /\ \A h \in 1..Len(trace) :
                           IsPrefix(child, trace[h].path) =>
                               k < h /\ \A n \in later : h < n
                      /\ later # {} =>
                           \E h \in (k + 1)..Len(trace) :
                               trace[h].kind = "close" /\ trace[h].path = child
            /\ e.kind = "fetch" =>
                /\ Len(Remote[e.node]) > 0
                /\ \E h \in earlier :
                      trace[h].kind = "examine" /\ trace[h].i = Len(Remote[e.node])
                /\ \A h \in earlier :
                      trace[h].kind = "fetch" =>
                          FirstFileLink(e.node, trace[h].name)
                              < FirstFileLink(e.node, e.name)
            /\ e.kind = "close" =>
                \A h \in (k + 1)..Len(trace) : trace[h].path # e.path

\* both sub-folders of module a were walked, F with two files fetched in the
\* order of its listing, before the module's own file is fetched
C13_Witness ==
    /\ pc = "walk"
    /\ Depth = 1
    /\ Top.pc = "poll"
    /\ Top.tried = << <<"y">> >>
    /\ Len(walked) = 3
    /\ \E k, n \in 1..Len(trace) :
         /\ k < n
         /\ trace[k].kind = "fetch" /\ trace[k].name = <<"x">>
         /\ trace[n].kind = "fetch" /\ trace[n].name = <<"z">>
    /\ \E k \in 1..Len(trace) : trace[k].kind = "fetch" /\ trace[k].name = <<"t">>

\* the call of start has ended: it returned, or it raised
Ended == pc \in {"done", "error"}

\* C14: on a finite mapping and finite remote trees without cycle, when every
\* transfer in progress comes to its end, every call of start ends; and the
\* wait for a transfer has no timeout: while the transfer polled for is in
\* progress the walk stays at that file, whatever the number of polls.
C14_StartTerminates ==
    /\ (pc = "idle") ~> Ended
    /\ [][(pc = "walk" /\ Top.pc = "poll" /\ get_download_status(Top.driver)) =>
            /\ pc' = "walk"
            /\ Len(stack') = Depth
            /\ stack'[Depth].pc = "poll"
            /\ stack'[Depth].j = Top.j
            /\ attempts' = attempts]_vars

\* start returned after the walk of two modules with sub-folders and polls
C14_Witness ==
    /\ pc = "done"
    /\ Len(synced) = 2
    /\ Len(walked) = 5
    /\ Len(attempts) >= 5

\* the file pages on the cycle of module d
CycleNodes == {"md", "L"}

\* C15: the walk keeps no record of the pages it is in: when a folder link
\* leads back to an ancestor, the page is walked again, one level deeper and
\* on one more session, as deep as the walk is followed; the walks of the
\* folders on the cycle never come to their fetch phase nor to the closing of
\* their session, and the walk of the module never returns.
C15_CycleRecursesWithoutBound ==
    /\ \A k \in 1..Len(stack) :
         stack[k].url.node \in CycleNodes =>
             /\ stack[k].pc \in {"get", "loop", "recurse"}
             /\ stack[k].tried = << >>
             /\ IsOpen(stack[k].driver)
             /\ sessions[stack[k].driver].closes = 0
    /\ \A k \in 1..Len(walked) : walked[k].node \notin CycleNodes
    /\ \A k \in 1..Len(trace) :
         trace[k].node \in CycleNodes => trace[k].kind = "examine"
    /\ pc \in {"idle", "loop", "enter", "walk"}
    /\ pc = "walk" =>
         /\ Cardinality({ stack[k].driver : k \in 1..Depth }) = Depth
         /\ OpenNow = { stack[k].driver : k \in 1..Depth }
    /\ Depth < MaxDepth => ENABLED NextCycle

\* the module's page is walked at three levels, with a session open per level
C15_Witness ==
    /\ pc = "walk"
    /\ Depth >= 5
    /\ stack[1].url.node = "md"
    /\ stack[3].url.node = "md"
    /\ stack[5].url.node = "md"
    /\ stack[1].path # stack[3].path
    /\ Cardinality(OpenNow) = Depth

\* C16: no navigation, listing read, download or close is issued on a session
\* that is closed already (the driver would raise), no session is closed
\* twice, the session of every walk in progress is open, and the walk of each
\* module starts on an open session that no earlier walk has closed.
C16_NoUseAfterClose ==
    /\ error # "WebDriverException"
    /\ \A d \in 1..Len(sessions) :
         /\ sessions[d].closes <= 1
         /\ sessions[d].open => sessions[d].closes = 0
    /\ \A k \in 1..Len(stack) : IsOpen(stack[k].driver)
    /\ \A t \in inflight : IsOpen(t.session)
    /\ pc = "enter" =>
         /\ IsOpen(driver)
         /\ \A k \in 1..Len(walked) : walked[k].session # driver

\* the second module is about to be walked; the first one's session is closed
C16_Witness ==
    /\ pc = "enter"
    /\ Len(synced) = 1
    /\ Len(walked) >= 1
    /\ ~sessions[walked[Len(walked)].session].open
    /\ IsOpen(driver)

====
